---- MODULE Spec2Model ----
(***************************************************************************)
(* Model of quantum_aegis: the QUBO problem model (problem/qubo.py), the   *)
(* instance generator (problem/tactical.py), the classical solvers         *)
(* (solvers/classical) and the orchestration of the variational solvers    *)
(* (solvers/quantum/qaoa.py, vqe.py).                                      *)
(*                                                                         *)
(* Real numbers are exact rationals <<n, d>> in lowest terms with d > 0;   *)
(* float('inf') is <<1, 0>>.  Bitstrings are sequences over {0, 1};        *)
(* element k holds Python's x[k-1].  An optional value is a sequence of    *)
(* length 0 (None) or 1.                                                   *)
(***************************************************************************)
EXTENDS Integers, Sequences, FiniteSets, TLC

\* ---------------------------------------------------------------- bounds
MaxN == 2
MaxCost == 2
MaxEvals == 2
MaxHistory == 2

\* Weights and penalties the callers pass (alpha, beta >= 0, penalty > 0).
Weights == {0, 1}
Penalties == {1, 10}

\* ------------------------------------------------- exact real arithmetic
Abs(n) == IF n < 0 THEN -n ELSE n

RECURSIVE GCD(_, _)
GCD(a, b) == IF b = 0 THEN a ELSE GCD(b, a % b)

Norm(n, d) ==
    LET g == GCD(Abs(n), Abs(d))
        s == IF d < 0 THEN -1 ELSE 1
    IN  <<(s * n) \div g, (s * d) \div g>>

Rat(n) == <<n, 1>>
Inf == <<1, 0>>
RAdd(a, b) == Norm(a[1] * b[2] + b[1] * a[2], a[2] * b[2])
RSub(a, b) == Norm(a[1] * b[2] - b[1] * a[2], a[2] * b[2])
RMul(a, b) == Norm(a[1] * b[1], a[2] * b[2])
RDiv(a, b) == Norm(a[1] * b[2], a[2] * b[1])
RLt(a, b) == a[1] * b[2] < b[1] * a[2]
RLe(a, b) == a[1] * b[2] <= b[1] * a[2]
RAbs(a) == <<Abs(a[1]), a[2]>>

\* np.sum over a sequence of reals
RECURSIVE RSumTo(_, _)
RSumTo(s, k) == IF k = 0 THEN Rat(0) ELSE RAdd(RSumTo(s, k - 1), s[k])
RSum(s) == RSumTo(s, Len(s))

\* np.sum over an integer array
RECURSIVE ISumTo(_, _)
ISumTo(s, k) == IF k = 0 THEN 0 ELSE ISumTo(s, k - 1) + s[k]
ISum(s) == ISumTo(s, Len(s))

\* arr.max() and arr.min()
RMax(s) == CHOOSE v \in {s[i] : i \in 1..Len(s)} :
               \A i \in 1..Len(s) : RLe(s[i], v)
RMin(s) == CHOOSE v \in {s[i] : i \in 1..Len(s)} :
               \A i \in 1..Len(s) : RLe(v, s[i])

\* A plausible slip in the tie-break: the index of the last minimum.
argmin_last(s) == (CHOOSE i \in 1..Len(s) :
                      /\ \A j \in 1..Len(s) : RLe(s[i], s[j])
                      /\ \A j \in (i + 1)..Len(s) : RLt(s[i], s[j])) - 1

\* np.argmin: the 0-based index of the first minimum
argmin(s) == (CHOOSE i \in 1..Len(s) :
                 /\ \A j \in 1..Len(s) : RLe(s[i], s[j])
                 /\ \A j \in 1..(i - 1) : RLt(s[i], s[j])) - 1

\* np.argmax: the 0-based index of the first maximum
argmax(s) == (CHOOSE i \in 1..Len(s) :
                 /\ \A j \in 1..Len(s) : RLe(s[j], s[i])
                 /\ \A j \in 1..(i - 1) : RLt(s[j], s[i])) - 1

\* ------------------------------------------------------------ bitstrings
BitStrings(n) == [1..n -> {0, 1}]

Pow2(n) == 2 ^ n

\* format(i, 'b'): the binary numeral of i, most significant digit first
RECURSIVE Bin(_)
Bin(i) == IF i < 2 THEN <<i>> ELSE Bin(i \div 2) \o <<i % 2>>

\* format(i, f'0{N}b'): the numeral zero-padded on the left to width >= N
format(i, n) ==
    LET b == Bin(i)
    IN  IF Len(b) >= n THEN b ELSE [k \in 1..(n - Len(b)) |-> 0] \o b

\* np.zeros(N, dtype=int); x[best_idx] = 1
OneHot(n, idx) == [k \in 1..n |-> IF k = idx + 1 THEN 1 ELSE 0]

\* ------------------------------------------------- QUBOProblem (qubo.py)
\* A plausible slip in _normalize: an all-equal array becomes all ones.
normalize_equal_ones(arr) ==
    LET mx == RMax(arr)
        mn == RMin(arr)
    IN  IF mx = mn
        THEN [i \in 1..Len(arr) |-> Rat(1)]
        ELSE [i \in 1..Len(arr) |-> RDiv(RSub(arr[i], mn), RSub(mx, mn))]

\* A plausible slip in _normalize: the divisor is the maximum, not the range.
normalize_by_max(arr) ==
    LET mx == RMax(arr)
        mn == RMin(arr)
    IN  IF mx = mn
        THEN [i \in 1..Len(arr) |-> RDiv(Rat(1), Rat(Len(arr)))]
        ELSE [i \in 1..Len(arr) |-> RDiv(RSub(arr[i], mn), mx)]

normalize(arr) ==
    LET mx == RMax(arr)
        mn == RMin(arr)
    IN  IF mx = mn
        THEN [i \in 1..Len(arr) |-> RDiv(Rat(1), Rat(Len(arr)))]
        ELSE [i \in 1..Len(arr) |-> RDiv(RSub(arr[i], mn), RSub(mx, mn))]

\* alpha * R + beta * D
costs(m) == [i \in 1..m.N |->
                RAdd(RMul(m.alpha, m.R[i]), RMul(m.beta, m.D[i]))]

build_qubo_matrix(n, R, D, alpha, beta, penalty) ==
    [i \in 1..n |-> [j \in 1..n |->
        IF i = j
        THEN RSub(RAdd(RMul(alpha, R[i]), RMul(beta, D[i])), penalty)
        ELSE RMul(Rat(2), penalty)]]

\* The object QUBOProblem.__init__ builds once the length check has passed.
QUBOProblem(risk_costs, distance_costs, alpha, beta, penalty) ==
    LET n == Len(risk_costs)
        R == normalize(risk_costs)
        D == normalize(distance_costs)
    IN  [N |-> n, R |-> R, D |-> D,
         alpha |-> alpha, beta |-> beta, penalty |-> penalty,
         Q |-> build_qubo_matrix(n, R, D, alpha, beta, penalty)]

\* The error QUBOProblem.__init__ raises, "none" when it returns normally.
InitError(risk_costs, distance_costs) ==
    IF Len(distance_costs) # Len(risk_costs) THEN "ShapeMismatch"
    ELSE IF Len(risk_costs) = 0 THEN "ZeroSizeReduction"
    ELSE "none"

\* A plausible slip in the length check of evaluate: only short inputs fail.
EvaluateError_short_only(m, x) ==
    IF Len(x) < m.N THEN "ShapeMismatch" ELSE "none"

\* The error evaluate(x) raises, "none" when it returns normally.
EvaluateError(m, x) ==
    IF Len(x) # m.N THEN "ShapeMismatch" ELSE "none"

\* A plausible slip in evaluate: the constraint violation is not squared.
evaluate_unsquared(m, x) ==
    LET c == costs(m)
        linear == RSum([i \in 1..m.N |-> RMul(c[i], Rat(x[i]))])
        constraint == RMul(m.penalty, Rat(ISum(x) - 1))
    IN  RAdd(linear, constraint)

\* evaluate(x) for len(x) = N
evaluate(m, x) ==
    LET c == costs(m)
        linear == RSum([i \in 1..m.N |-> RMul(c[i], Rat(x[i]))])
        constraint == RMul(m.penalty, Rat((ISum(x) - 1) * (ISum(x) - 1)))
    IN  RAdd(linear, constraint)

\* A plausible slip in the scan of get_optimal_solution: the comparison is
\* reversed.
RECURSIVE ScanFrom_reversed(_, _, _)
ScanFrom_reversed(m, i, best) ==
    IF i >= Pow2(m.N) THEN best
    ELSE LET x == format(i, m.N)
             energy == evaluate(m, x)
         IN  IF best.x = <<>> \/ RLt(best.energy, energy)
             THEN ScanFrom_reversed(m, i + 1, [x |-> <<x>>, energy |-> energy])
             ELSE ScanFrom_reversed(m, i + 1, best)

\* A plausible slip in the scan of get_optimal_solution: a later bitstring of
\* equal energy replaces the best one.
RECURSIVE ScanFrom_last_wins(_, _, _)
ScanFrom_last_wins(m, i, best) ==
    IF i >= Pow2(m.N) THEN best
    ELSE LET x == format(i, m.N)
             energy == evaluate(m, x)
         IN  IF RLe(energy, best.energy)
             THEN ScanFrom_last_wins(m, i + 1, [x |-> <<x>>, energy |-> energy])
             ELSE ScanFrom_last_wins(m, i + 1, best)

\* The loop of get_optimal_solution from i up to 2^N - 1; best is the pair
\* (best_x, best_energy) on entry to iteration i.
RECURSIVE ScanFrom(_, _, _)
ScanFrom(m, i, best) ==
    IF i >= Pow2(m.N) THEN best
    ELSE LET x == format(i, m.N)
             energy == evaluate(m, x)
         IN  IF RLt(energy, best.energy)
             THEN ScanFrom(m, i + 1, [x |-> <<x>>, energy |-> energy])
             ELSE ScanFrom(m, i + 1, best)

get_optimal_solution(m) == ScanFrom(m, 0, [x |-> <<>>, energy |-> Inf])

\* ----------------------------------------------- build_hamiltonian (qubo.py)
IsingH(m) ==
    [i \in 1..m.N |->
        RAdd(RDiv(m.Q[i][i], Rat(2)),
             RSum([j \in 1..m.N |->
                     IF j # i THEN RDiv(m.Q[i][j], Rat(4)) ELSE Rat(0)]))]

IsingJ(m) ==
    [i \in 1..m.N |-> [j \in 1..m.N |->
        IF i < j THEN RDiv(m.Q[i][j], Rat(4)) ELSE Rat(0)]]

\* abs(c) > 1e-10.  Every coefficient of the model is a rational whose
\* denominator is far below 10^10, so it exceeds 1e-10 exactly when nonzero.
AboveThreshold(c) == c[1] # 0

\* np.sum(Q) / 4 + np.sum(np.diag(Q)) / 4
IsingConstant(m) ==
    RAdd(RDiv(RSum([i \in 1..m.N |-> RSum(m.Q[i])]), Rat(4)),
         RDiv(RSum([i \in 1..m.N |-> m.Q[i][i]]), Rat(4)))

\* pauli_list as the set of (qubit index set, coefficient) terms
PauliList(m) ==
    {<<{i}, IsingH(m)[i]>> : i \in {k \in 1..m.N : AboveThreshold(IsingH(m)[k])}}
    \cup
    {<<{p[1], p[2]}, IsingJ(m)[p[1]][p[2]]>> :
        p \in {q \in (1..m.N) \X (1..m.N) :
                 q[1] < q[2] /\ AboveThreshold(IsingJ(m)[q[1]][q[2]])}}

build_hamiltonian(m) ==
    LET pl == PauliList(m)
    IN  [h |-> IsingH(m), J |-> IsingJ(m), constant |-> IsingConstant(m),
         terms |-> IF pl = {} THEN {<<{}, IsingConstant(m)>>} ELSE pl]

\* Value of the operator on the computational basis state x, where Z_i has
\* eigenvalue z_i = 1 - 2 x_i.
SpinValue(ham, x) ==
    LET n == Len(x)
        z == [i \in 1..n |-> 1 - 2 * x[i]]
    IN  RAdd(RSum([i \in 1..n |-> RMul(ham.h[i], Rat(z[i]))]),
             RSum([i \in 1..n |-> RSum([j \in 1..n |->
                     RMul(ham.J[i][j], Rat(z[i] * z[j]))])]))

\* ------------------------------------------------ classical solvers
BruteForceSolver_solve(m) ==
    LET best == get_optimal_solution(m)
    IN  [bitstring |-> best.x[1], energy |-> best.energy,
         method |-> "brute_force"]

GreedySolver_solve(m) ==
    LET x == OneHot(m.N, argmin(costs(m)))
    IN  [bitstring |-> x, energy |-> evaluate(m, x), method |-> "greedy"]

\* ------------------------------------------------------------ the state
VARIABLES
    qubo,      \* the Problem Model the caller holds: <<>> or <<model>>
    tactical,  \* the TacticalPositionProblem the caller holds: <<>> or <<inst>>
    op,        \* the operation that ran last
    arg,       \* what is kept of its arguments (of cost arrays, the lengths)
    ret,       \* the value it returned: <<>> or <<value>>
    err,       \* the error it raised, "none" if it returned
    solver,    \* the variational solver object: <<>> or <<solver>>
    pc,        \* the position of the running solve call, "idle" between calls
    frame      \* the local variables of the running (or last) solve call

vars == <<qubo, tactical, op, arg, ret, err, solver, pc, frame>>
svars == <<solver, pc, frame>>

\* The locals of a solve call before anything is assigned.
NoFrame ==
    [callback |-> "none", eval_count |-> 0,
     optimal |-> <<>>, x |-> <<>>, counts |-> <<>>, tier |-> "none",
     tried |-> {}, startLen |-> 0]

CostArrays == UNION {[1..n -> {Rat(c) : c \in 0..MaxCost}] : n \in 0..MaxN}

Init ==
    /\ qubo = <<>>
    /\ tactical = <<>>
    /\ op = "none"
    /\ arg = <<>>
    /\ ret = <<>>
    /\ err = "none"
    /\ solver = <<>>
    /\ pc = "idle"
    /\ frame = NoFrame

\* The model and the instance are read-only once constructed, so a behaviour
\* constructs one and then applies one operation to it.
Fresh == op \in {"construct", "generate"}

\* QUBOProblem(risk_costs, distance_costs, alpha, beta, penalty)
Construct ==
    /\ op = "none"
    /\ \E risk \in CostArrays, dist \in CostArrays,
          a \in Weights, b \in Weights, p \in Penalties :
        /\ op' = "construct"
        /\ arg' = [risk_len |-> Len(risk), dist_len |-> Len(dist)]
        /\ err' = InitError(risk, dist)
        /\ qubo' = IF InitError(risk, dist) = "none"
                   THEN <<QUBOProblem(risk, dist, Rat(a), Rat(b), Rat(p))>>
                   ELSE <<>>
        /\ ret' = qubo'
    /\ UNCHANGED <<tactical, svars>>

\* The arguments evaluate is called with: every bitstring of the model's
\* length and, for every other length, the all-zero and the all-one array.
EvaluateArgs(n) ==
    BitStrings(n) \cup
    {[k \in 1..len |-> b] : len \in (0..(MaxN + 1)) \ {n}, b \in {0, 1}}

\* qubo.evaluate(x)
Evaluate ==
    /\ qubo # <<>>
    /\ Fresh
    /\ \E x \in EvaluateArgs(qubo[1].N) :
        /\ op' = "evaluate"
        /\ arg' = [x |-> x]
        /\ err' = EvaluateError(qubo[1], x)
        /\ ret' = IF EvaluateError(qubo[1], x) = "none"
                  THEN <<evaluate(qubo[1], x)>>
                  ELSE <<>>
    /\ UNCHANGED <<qubo, tactical, svars>>

\* BruteForceSolver().solve(qubo)
BruteForceSolve ==
    /\ qubo # <<>>
    /\ Fresh
    /\ op' = "brute_force"
    /\ arg' = <<>>
    /\ err' = "none"
    /\ ret' = <<BruteForceSolver_solve(qubo[1])>>
    /\ UNCHANGED <<qubo, tactical, svars>>

\* GreedySolver().solve(qubo)
GreedySolve ==
    /\ qubo # <<>>
    /\ Fresh
    /\ op' = "greedy"
    /\ arg' = <<>>
    /\ err' = "none"
    /\ ret' = <<GreedySolver_solve(qubo[1])>>
    /\ UNCHANGED <<qubo, tactical, svars>>

\* build_hamiltonian(qubo)
BuildHamiltonian ==
    /\ qubo # <<>>
    /\ Fresh
    /\ op' = "build_hamiltonian"
    /\ arg' = <<>>
    /\ err' = "none"
    /\ ret' = <<build_hamiltonian(qubo[1])>>
    /\ UNCHANGED <<qubo, tactical, svars>>

\* An optional cost array argument: None or an array.
OptCostArrays == {<<>>} \cup {<<a>> : a \in CostArrays}

\* The length of an optional array: <<>> for None, else <<len>>.
OptLen(a) == IF a = <<>> THEN <<>> ELSE <<Len(a[1])>>

\* rng.uniform(0.1, 1.0, N): the arrays a draw of N values can return
Drawn(n) == [1..n -> {Rat(c) : c \in 0..MaxCost}]

\* TacticalPositionProblem(N, risk_costs, distance_costs, alpha, beta, seed).
\* A missing array is drawn by rng.uniform(0.1, 1.0, N): N values, any of
\* the cost values.  The penalty is QUBOProblem's default, 10.0.  The record
\* keeps the fields N, alpha, beta and qubo of the instance.
Generate ==
    /\ op = "none"
    /\ \E n \in 0..MaxN, risk_opt \in OptCostArrays, dist_opt \in OptCostArrays,
          a \in Weights, b \in Weights :
       \E risk \in IF risk_opt = <<>> THEN Drawn(n) ELSE {risk_opt[1]},
          dist \in IF dist_opt = <<>> THEN Drawn(n) ELSE {dist_opt[1]} :
            /\ op' = "generate"
            /\ arg' = [N |-> n, risk_len |-> OptLen(risk_opt),
                       dist_len |-> OptLen(dist_opt)]
            /\ err' = InitError(risk, dist)
            /\ tactical' =
                 IF InitError(risk, dist) = "none"
                 THEN <<[N |-> n, alpha |-> Rat(a), beta |-> Rat(b),
                         qubo |-> QUBOProblem(risk, dist, Rat(a), Rat(b),
                                              Rat(10))]>>
                 ELSE <<>>
            /\ ret' = tactical'
    /\ UNCHANGED <<qubo, svars>>

\* tactical.get_qubo()
GetQubo ==
    /\ tactical # <<>>
    /\ qubo = <<>>
    /\ op' = "get_qubo"
    /\ arg' = <<>>
    /\ err' = "none"
    /\ qubo' = <<tactical[1].qubo>>
    /\ ret' = qubo'
    /\ UNCHANGED <<tactical, svars>>

\* tactical.get_optimal_solution()
TacticalOptimalSolution ==
    /\ tactical # <<>>
    /\ Fresh
    /\ op' = "tactical_optimal"
    /\ arg' = <<>>
    /\ err' = "none"
    /\ ret' = <<get_optimal_solution(tactical[1].qubo)>>
    /\ UNCHANGED <<qubo, tactical, svars>>

Next ==
    \/ Construct
    \/ Evaluate
    \/ BruteForceSolve
    \/ GreedySolve
    \/ BuildHamiltonian
    \/ Generate
    \/ GetQubo
    \/ TacticalOptimalSolution

Spec == Init /\ [][Next]_vars

\* ------------------------------------------- callers that keep their arrays
\* Cost arrays of the documented scenarios: four costs of 0.5, and the risk
\* and distance costs [0.2, 0.5, 0.9] and [0.9, 0.5, 0.1].
Half4 == [i \in 1..4 |-> <<1, 2>>]
Risk3 == <<(<<1, 5>>), (<<1, 2>>), (<<9, 10>>)>>
Dist3 == <<(<<9, 10>>), (<<1, 2>>), (<<1, 10>>)>>
ScenarioArrays == {Half4, Risk3, Dist3}

\* The non-empty cost arrays a caller passes and keeps a reference to.
GivenArrays ==
    UNION {[1..n -> {Rat(c) : c \in 0..MaxCost}] : n \in 1..MaxN}
    \cup ScenarioArrays

\* QUBOProblem(risk_costs, distance_costs, alpha, beta, penalty) by a caller
\* that still holds the two arrays afterwards.
ConstructGiven ==
    /\ op = "none"
    /\ \E risk \in GivenArrays, dist \in GivenArrays,
          a \in Weights, b \in Weights, p \in Penalties :
        /\ op' = "construct"
        /\ arg' = [risk_len |-> Len(risk), dist_len |-> Len(dist),
                   risk_costs |-> risk, distance_costs |-> dist]
        /\ err' = InitError(risk, dist)
        /\ qubo' = IF InitError(risk, dist) = "none"
                   THEN <<QUBOProblem(risk, dist, Rat(a), Rat(b), Rat(p))>>
                   ELSE <<>>
        /\ ret' = qubo'
    /\ UNCHANGED <<tactical, svars>>

NextGiven ==
    \/ ConstructGiven
    \/ BruteForceSolve
    \/ GreedySolve

SpecGiven == Init /\ [][NextGiven]_vars

\* ====================================================== claims on Spec

MinCost(m) == RMin(costs(m))

\* C2 as stated: for every Problem Model the constructor accepts, the Exact
\* Solver returns a bitstring with exactly one set bit whose energy is at
\* most evaluate(b) for every bitstring b of length N.
C2_AnyPenalty ==
    op = "brute_force" =>
        /\ ISum(ret[1].bitstring) = 1
        /\ \A b \in BitStrings(qubo[1].N) :
              RLe(ret[1].energy, evaluate(qubo[1], b))

\* C2 amended: the Exact Solver's energy is at most evaluate(b) for every
\* bitstring b of length N, and its bitstring has length N; the bitstring has
\* exactly one set bit whenever the penalty is strictly greater than the
\* smallest combined cost min_i (alpha*R_i + beta*D_i), and is the all-zero
\* bitstring, of energy penalty, otherwise.
C2_ExactSolver ==
    op = "brute_force" =>
        /\ Len(ret[1].bitstring) = qubo[1].N
        /\ ret[1].energy = evaluate(qubo[1], ret[1].bitstring)
        /\ \A b \in BitStrings(qubo[1].N) :
              RLe(ret[1].energy, evaluate(qubo[1], b))
        /\ IF RLt(MinCost(qubo[1]), qubo[1].penalty)
           THEN ISum(ret[1].bitstring) = 1
           ELSE ISum(ret[1].bitstring) = 0 /\ ret[1].energy = qubo[1].penalty

C2_Witness ==
    /\ op = "brute_force"
    /\ qubo[1].N >= 2
    /\ RLt(MinCost(qubo[1]), qubo[1].penalty)
    /\ RLt(Rat(0), MinCost(qubo[1]))
    /\ ISum(ret[1].bitstring) = 1

\* C3: for every bitstring x, the spin form sum_i h[i] z_i +
\* sum_{i<j} J[i][j] z_i z_j with z_i = 1 - 2 x_i, plus the mapper's constant,
\* equals evaluate(x).
C3_RoundTrip ==
    op = "build_hamiltonian" =>
        \A x \in BitStrings(qubo[1].N) :
            RAdd(SpinValue(ret[1], x), ret[1].constant) = evaluate(qubo[1], x)

\* C9: construction from cost arrays of different length raises the
\* shape-mismatch error and yields no model; evaluate(x) with len(x) # N
\* raises it, returns no energy and leaves the model unchanged; with equal
\* lengths neither raises it.
C9_State ==
    /\ op = "construct" =>
          IF arg.risk_len # arg.dist_len
          THEN err = "ShapeMismatch" /\ qubo = <<>> /\ ret = <<>>
          ELSE err # "ShapeMismatch"
    /\ op = "evaluate" =>
          IF Len(arg.x) # qubo[1].N
          THEN err = "ShapeMismatch" /\ ret = <<>>
          ELSE err = "none" /\ ret = <<evaluate(qubo[1], arg.x)>>

C9_ShapeMismatch ==
    /\ []C9_State
    /\ [][op' = "evaluate" => qubo' = qubo]_vars

C9_Witness ==
    /\ op = "evaluate"
    /\ Len(arg.x) # qubo[1].N
    /\ err = "ShapeMismatch"

\* The supplied arrays of a Generate call are inconsistent with its N.
Inconsistent(a) ==
    \/ a.risk_len # <<>> /\ a.risk_len[1] # a.N
    \/ a.dist_len # <<>> /\ a.dist_len[1] # a.N

\* C10: the Instance Generator called with cost arrays whose length is
\* inconsistent with N always fails with the shape-mismatch error, so the N
\* of every constructed instance equals the N of its Problem Model.
C10_GeneratorShape ==
    /\ op = "generate" /\ Inconsistent(arg) => err = "ShapeMismatch"
    /\ tactical # <<>> => tactical[1].N = tactical[1].qubo.N

\* The combined cost alpha*R_i + beta*D_i of item i (1-based) of model m.
ItemCost(m, i) == RAdd(RMul(m.alpha, m.R[i]), RMul(m.beta, m.D[i]))

\* C11: evaluate of the bitstring whose only set bit is i equals
\* alpha*R_i + beta*D_i; for a bitstring with k set bits evaluate is the sum
\* of the combined costs of the set items plus penalty*(k-1)^2.
C11_PenaltyTerm ==
    (op = "evaluate" /\ err = "none") =>
        LET m == qubo[1]
            x == arg.x
            k == Cardinality({i \in 1..m.N : x[i] = 1})
            chosen == [i \in 1..m.N |->
                         IF x[i] = 1 THEN ItemCost(m, i) ELSE Rat(0)]
        IN  /\ ret[1] = RAdd(RSum(chosen),
                             RMul(m.penalty, Rat((k - 1) * (k - 1))))
            /\ \A i \in 1..m.N :
                  x = OneHot(m.N, i - 1) => ret[1] = ItemCost(m, i)

C11_Witness ==
    /\ op = "evaluate"
    /\ err = "none"
    /\ qubo[1].N >= 2
    /\ arg.x = OneHot(qubo[1].N, 1)
    /\ RLt(Rat(0), ret[1])
    /\ ret[1] = ItemCost(qubo[1], 2)

\* ============================================ variational solvers (solve)

MaxSolveN == 2

\* The parameter vectors the optimizer proposes, as abstract identifiers.
Thetas == {0, 1}

\* The primitives the environment may offer, and what importing and
\* constructing one does: "ImportError" when the import fails, "TypeError"
\* when the constructor rejects the backend argument, "ok" otherwise.
Primitives == {"Statevector", "Backend", "Aer", "Standard"}
Envs == [Primitives -> {"ok", "ImportError", "TypeError"}]
Errors == {"RuntimeError", "ImportError", "TypeError", "QiskitError"}

\* QAOASolver.solve, sampler setup: the sampler acquired or the error raised.
AcquireSampler(use_noise, env) ==
    IF use_noise
    THEN IF env["Backend"] # "ImportError"
         THEN (IF env["Backend"] = "ok" THEN "Backend" ELSE "TypeError")
         ELSE IF env["Aer"] = "ok" THEN "Aer"
         ELSE IF env["Statevector"] # "ImportError"
         THEN (IF env["Statevector"] = "ok" THEN "Statevector" ELSE "TypeError")
         ELSE IF env["Standard"] # "ImportError"
         THEN (IF env["Standard"] = "ok" THEN "Standard" ELSE "TypeError")
         ELSE "RuntimeError"
    ELSE IF env["Statevector"] # "ImportError"
         THEN (IF env["Statevector"] = "ok" THEN "Statevector" ELSE "TypeError")
         ELSE IF env["Backend"] # "ImportError"
         THEN (IF env["Backend"] = "ok" THEN "Backend" ELSE "TypeError")
         ELSE IF env["Aer"] = "ok" THEN "Aer"
         ELSE IF env["Standard"] # "ImportError"
         THEN (IF env["Standard"] = "ok" THEN "Standard" ELSE "TypeError")
         ELSE IF env["Aer"] = "ImportError" THEN "ImportError" ELSE "Aer"

\* vqe.py module level: the class bound to the name Estimator, "None", or
\* "ModuleImportError" when the module itself cannot be imported.
ModuleEstimator(env) ==
    IF env["Statevector"] # "ImportError" THEN "Statevector"
    ELSE IF env["Standard"] # "ImportError" THEN "Standard"
    ELSE IF env["Aer"] # "ImportError" THEN "Aer"
    ELSE IF env["Backend"] # "ImportError" THEN "None"
    ELSE "ModuleImportError"

\* Estimator() on the module-level name: the estimator or the error raised.
ModuleEstimatorCall(env) ==
    IF ModuleEstimator(env) = "Aer" THEN "Aer"
    ELSE IF env[ModuleEstimator(env)] = "ok" THEN ModuleEstimator(env)
    ELSE "TypeError"

\* VQESolver.solve, estimator setup: the estimator acquired or the error raised.
AcquireEstimator(use_noise, env) ==
    IF use_noise
    THEN IF env["Backend"] # "ImportError"
         THEN (IF env["Backend"] = "ok" THEN "Backend" ELSE "TypeError")
         ELSE IF env["Aer"] = "ok" THEN "Aer"
         ELSE IF env["Statevector"] # "ImportError"
         THEN (IF env["Statevector"] = "ok" THEN "Statevector" ELSE "TypeError")
         ELSE IF ModuleEstimator(env) # "None"
         THEN ModuleEstimatorCall(env)
         ELSE "RuntimeError"
    ELSE IF env["Statevector"] # "ImportError"
         THEN (IF env["Statevector"] = "ok" THEN "Statevector" ELSE "TypeError")
         ELSE IF env["Backend"] # "ImportError"
         THEN (IF env["Backend"] = "ok" THEN "Backend" ELSE "TypeError")
         ELSE IF env["Aer"] = "ok" THEN "Aer"
         ELSE IF ModuleEstimator(env) # "None"
         THEN (IF ModuleEstimatorCall(env) # "TypeError"
               THEN ModuleEstimatorCall(env)
               ELSE IF env["Aer"] = "ImportError" THEN "ImportError" ELSE "Aer")
         ELSE IF env["Aer"] = "ImportError" THEN "ImportError" ELSE "Aer"

\* The expectation value of the operator build_hamiltonian returns on the
\* computational basis state x (the identity-only operator has its
\* coefficient as value).
Expectation(ham, x) ==
    IF ham.terms = {<<{}, ham.constant>>} THEN ham.constant
    ELSE SpinValue(ham, x)

\* The mean the oracle reports for parameters theta: the ansatz bound to
\* theta is taken to prepare the basis state numbered theta.
OracleMean(m, theta) ==
    Expectation(build_hamiltonian(m), format(theta % Pow2(m.N), m.N))

\* callback_fn of solve when no callback is supplied
DefaultCallback(history, eval_count, parameters, mean) ==
    Append(history, [iteration |-> eval_count, energy |-> mean,
                     parameters |-> parameters])

\* A supplied callback is invoked in place of the default one; the solver
\* itself records nothing.
callback_fn(cb, history, eval_count, parameters, mean) ==
    IF cb = "default"
    THEN DefaultCallback(history, eval_count, parameters, mean)
    ELSE history

\* Probability vectors over the 2^N outcomes (entry k is outcome k - 1): the
\* point masses and the uniform distribution.
PointMass(n, k) == [i \in 1..Pow2(n) |-> IF i = k + 1 THEN Rat(1) ELSE Rat(0)]
Uniform(n) == [i \in 1..Pow2(n) |-> RDiv(Rat(1), Rat(Pow2(n)))]
Dists(n) == {PointMass(n, k) : k \in 0..(Pow2(n) - 1)} \cup {Uniform(n)}

\* int(p) for a non-negative real
IntPart(r) == r[1] \div r[2]

\* int(pattern, 2)
RECURSIVE ValueTo(_, _)
ValueTo(b, k) == IF k = 0 THEN 0 ELSE 2 * ValueTo(b, k - 1) + b[k]
Value(b) == ValueTo(b, Len(b))

\* {format(i, f'0{N}b'): int(probs[i] * 1024) for i ... if probs[i] > 1e-10}
CountsFromProbs(probs, n) ==
    [pat \in {format(i - 1, n) :
                 i \in {k \in 1..Len(probs) : AboveThreshold(probs[k])}}
        |-> IntPart(RMul(probs[Value(pat) + 1], Rat(1024)))]

\* x = np.array([int(b) for b in format(np.argmax(probs), f'0{N}b')])
BitsFromProbs(probs, n) == format(argmax(probs), n)

\* max(counts, key=counts.get): a key holding the largest count; which one
\* among equals depends on the order in which the backend lists them.
MaxKeys(counts) ==
    {k \in DOMAIN counts : \A j \in DOMAIN counts : counts[j] <= counts[k]}

\* The heuristic choice: argmin of alpha*R + beta*D as a one-hot bitstring.
HeuristicBits(m) == OneHot(m.N, argmin(costs(m)))

\* A plausible slip in the repair: only bitstrings with several set bits are
\* replaced.
Repair_only_many(m, x) == IF ISum(x) > 1 THEN HeuristicBits(m) ELSE x

\* Constraint repair: if np.sum(x) != 1, substitute the heuristic bitstring.
Repair(m, x) == IF ISum(x) # 1 THEN HeuristicBits(m) ELSE x

\* The dictionary solve returns.
Result(x, optimal, history, counts) ==
    [bitstring |-> x,
     energy |-> optimal.energy,
     optimal_parameters |-> optimal.params,
     optimization_history |-> history,
     result |-> optimal,
     counts |-> counts]

\* ---------------------------------------------------------------- actions
History == solver[1].optimization_history

\* An exception leaves solve: the call ends without a Result.
Raise(e) ==
    /\ pc' = "idle"
    /\ err' = e
    /\ ret' = <<>>

\* An extraction tier has produced x and counts: constraint repair, then the
\* Result is returned.
Finish(tier, x, counts) ==
    /\ frame' = [frame EXCEPT !.tried = @ \cup {tier}, !.tier = tier,
                              !.x = <<x>>, !.counts = counts]
    /\ ret' = <<Result(Repair(qubo[1], x), frame.optimal[1], History, counts)>>
    /\ err' = "none"
    /\ pc' = "idle"

\* solve(qubo_problem, callback) is entered: N and the Hamiltonian are
\* computed, the locals are fresh.
SolveEnter ==
    /\ solver # <<>>
    /\ pc = "idle"
    /\ \E cb \in {"default", "supplied"} :
        frame' = [NoFrame EXCEPT !.callback = cb, !.startLen = Len(History)]
    /\ op' = solver[1].kind
    /\ arg' = <<>>
    /\ ret' = <<>>
    /\ err' = "none"
    /\ pc' = "setup"
    /\ UNCHANGED <<qubo, tactical, solver>>

\* QAOASolver.solve: sampler setup
QAOA_Setup ==
    /\ pc = "setup"
    /\ solver[1].kind = "QAOA"
    /\ \E env \in Envs :
        LET s == AcquireSampler(solver[1].use_noise, env)
        IN  /\ frame' = [frame EXCEPT !.tried = @ \cup {"oracle"}]
            /\ IF s \in Errors
               THEN Raise(s)
               ELSE pc' = "minimize" /\ UNCHANGED <<ret, err>>
    /\ UNCHANGED <<qubo, tactical, solver, op, arg>>

\* VQESolver.solve: estimator setup
VQE_Setup ==
    /\ pc = "setup"
    /\ solver[1].kind = "VQE"
    /\ \E env \in Envs :
        /\ ModuleEstimator(env) # "ModuleImportError"
        /\ LET s == AcquireEstimator(solver[1].use_noise, env)
           IN  /\ frame' = [frame EXCEPT !.tried = @ \cup {"oracle"}]
               /\ IF s \in Errors
                  THEN Raise(s)
                  ELSE pc' = "minimize" /\ UNCHANGED <<ret, err>>
    /\ UNCHANGED <<qubo, tactical, solver, op, arg>>

\* One evaluation of the objective inside compute_minimum_eigenvalue: the
\* optimizer proposes parameters, the oracle reports the mean, and the
\* callback is invoked once with the running evaluation count.
Evaluation ==
    /\ pc = "minimize"
    /\ frame.eval_count < MaxEvals
    /\ frame.callback = "default" => Len(History) < MaxHistory
    /\ \E theta \in Thetas :
        /\ solver' = <<[solver[1] EXCEPT !.optimization_history =
                          callback_fn(frame.callback, @, frame.eval_count + 1,
                                      theta, OracleMean(qubo[1], theta))]>>
        /\ frame' = [frame EXCEPT !.eval_count = @ + 1]
    /\ UNCHANGED <<qubo, tactical, op, arg, ret, err, pc>>

\* compute_minimum_eigenvalue returns: optimal_parameters and eigenvalue.
Converge ==
    /\ pc = "minimize"
    /\ \E theta \in Thetas :
        frame' = [frame EXCEPT !.optimal =
                    <<[params |-> theta, energy |-> OracleMean(qubo[1], theta)]>>]
    /\ pc' = IF solver[1].kind = "QAOA" THEN "extract_a" ELSE "bind"
    /\ UNCHANGED <<qubo, tactical, solver, op, arg, ret, err>>

\* QAOA tier (a): the eigenstate of the result, inside try/except
QAOA_Eigenstate ==
    /\ pc = "extract_a"
    /\ solver[1].kind = "QAOA"
    /\ \/ \E probs \in Dists(qubo[1].N) :
            Finish("a", BitsFromProbs(probs, qubo[1].N), CountsFromProbs(probs, qubo[1].N))
       \/ /\ frame' = [frame EXCEPT !.tried = @ \cup {"a"}]
          /\ pc' = "bind"
          /\ UNCHANGED <<ret, err>>
    /\ UNCHANGED <<qubo, tactical, solver, op, arg>>

\* QAOA: qaoa.ansatz.assign_parameters and remove_final_measurements, outside
\* any try
QAOA_Bind ==
    /\ pc = "bind"
    /\ solver[1].kind = "QAOA"
    /\ \/ pc' = "extract_b" /\ UNCHANGED <<ret, err>>
       \/ Raise("QiskitError")
    /\ UNCHANGED <<qubo, tactical, solver, op, arg, frame>>

\* QAOA tier (b): Statevector of the bound circuit, inside try/except
QAOA_Statevector ==
    /\ pc = "extract_b"
    /\ solver[1].kind = "QAOA"
    /\ \/ \E probs \in Dists(qubo[1].N) :
            Finish("b", BitsFromProbs(probs, qubo[1].N), CountsFromProbs(probs, qubo[1].N))
       \/ /\ frame' = [frame EXCEPT !.tried = @ \cup {"b"}]
          /\ pc' = "extract_c"
          /\ UNCHANGED <<ret, err>>
    /\ UNCHANGED <<qubo, tactical, solver, op, arg>>

\* QAOA tier (c): transpile, measure, run 1024 shots, inside try/except
QAOA_Sampling ==
    /\ pc = "extract_c"
    /\ solver[1].kind = "QAOA"
    /\ \/ \E probs \in Dists(qubo[1].N) :
          \E best \in MaxKeys(CountsFromProbs(probs, qubo[1].N)) :
            Finish("c", best, CountsFromProbs(probs, qubo[1].N))
       \/ /\ frame' = [frame EXCEPT !.tried = @ \cup {"c"}]
          /\ pc' = "extract_d"
          /\ UNCHANGED <<ret, err>>
    /\ UNCHANGED <<qubo, tactical, solver, op, arg>>

\* QAOA tier (d): the minimum-cost position
QAOA_Heuristic ==
    /\ pc = "extract_d"
    /\ solver[1].kind = "QAOA"
    /\ Finish("d", HeuristicBits(qubo[1]),
              [pat \in {format(argmin(costs(qubo[1])), qubo[1].N)} |-> 1024])
    /\ UNCHANGED <<qubo, tactical, solver, op, arg>>

\* VQE: ansatz.assign_parameters, decompose and AerSimulator, outside any try
VQE_Bind ==
    /\ pc = "bind"
    /\ solver[1].kind = "VQE"
    /\ \/ pc' = "extract_c" /\ UNCHANGED <<ret, err>>
       \/ Raise("QiskitError")
    /\ UNCHANGED <<qubo, tactical, solver, op, arg, frame>>

\* VQE: backend.run with 1024 shots, inside try/except
VQE_Sampling ==
    /\ pc = "extract_c"
    /\ solver[1].kind = "VQE"
    /\ \/ \E probs \in Dists(qubo[1].N) :
          \E best \in MaxKeys(CountsFromProbs(probs, qubo[1].N)) :
            Finish("c", best, CountsFromProbs(probs, qubo[1].N))
       \/ /\ frame' = [frame EXCEPT !.tried = @ \cup {"c"}]
          /\ pc' = "extract_b"
          /\ UNCHANGED <<ret, err>>
    /\ UNCHANGED <<qubo, tactical, solver, op, arg>>

\* VQE: Statevector of the bound circuit, in the except handler, unguarded
VQE_Statevector ==
    /\ pc = "extract_b"
    /\ solver[1].kind = "VQE"
    /\ \/ \E probs \in Dists(qubo[1].N) :
            Finish("b", BitsFromProbs(probs, qubo[1].N), CountsFromProbs(probs, qubo[1].N))
       \/ /\ frame' = [frame EXCEPT !.tried = @ \cup {"b"}]
          /\ Raise("QiskitError")
    /\ UNCHANGED <<qubo, tactical, solver, op, arg>>

\* The problems handed to the variational solvers: for each size, a rising
\* and a falling ramp of risk costs with equal distance costs.
Ramp(n, up) == [i \in 1..n |-> Rat(IF up THEN i ELSE n - i)]
SolveProblems ==
    {QUBOProblem(Ramp(n, up), [i \in 1..n |-> Rat(1)], Rat(1), Rat(1), Rat(10)) :
        n \in 1..MaxSolveN, up \in BOOLEAN}

\* After QUBOProblem(...) and QAOASolver(...) or VQESolver(...).
InitSolve ==
    /\ qubo \in {<<m>> : m \in SolveProblems}
    /\ tactical = <<>>
    /\ op = "construct"
    /\ arg = <<>>
    /\ ret = <<>>
    /\ err = "none"
    /\ solver \in {<<[kind |-> k, use_noise |-> u, optimization_history |-> <<>>]>> :
                    k \in {"QAOA", "VQE"}, u \in BOOLEAN}
    /\ pc = "idle"
    /\ frame = NoFrame

NextSolve ==
    \/ SolveEnter
    \/ QAOA_Setup
    \/ VQE_Setup
    \/ Evaluation
    \/ Converge
    \/ QAOA_Eigenstate
    \/ QAOA_Bind
    \/ QAOA_Statevector
    \/ QAOA_Sampling
    \/ QAOA_Heuristic
    \/ VQE_Bind
    \/ VQE_Sampling
    \/ VQE_Statevector
    \/ BruteForceSolve
    \/ GreedySolve

SpecSolve == InitSolve /\ [][NextSolve]_vars

\* ================================================= claims on SpecSolve

Variational == op \in {"QAOA", "VQE"}

\* A variational solve call has returned its Result.
Returned == Variational /\ pc = "idle" /\ ret # <<>>

\* A variational solve call is running or has just ended.
InCall == Variational /\ frame.callback # "none"

\* C1: whenever a variational solve returns, the returned bitstring has
\* length N and exactly one set bit, whatever the extraction tier produced.
C1_OneHotResult ==
    Returned =>
        /\ Len(ret[1].bitstring) = qubo[1].N
        /\ \A k \in 1..qubo[1].N : ret[1].bitstring[k] \in {0, 1}
        /\ ISum(ret[1].bitstring) = 1

C1_Witness ==
    /\ Returned
    /\ qubo[1].N >= 2
    /\ frame.x[1] = [k \in 1..qubo[1].N |-> 1]
    /\ ret[1].bitstring = HeuristicBits(qubo[1])

\* C4: in the Result of every solver the energy field equals evaluate()
\* applied to the bitstring field of the same Result.
C4_EnergyOfBitstring ==
    (Returned \/ op \in {"brute_force", "greedy"}) =>
        ret[1].energy = evaluate(qubo[1], ret[1].bitstring)

\* C5: the optimizationHistory buffer is empty at the start of each solve
\* call, so a Result holds only the records of its own call.
C5_HistoryFresh ==
    /\ pc = "setup" => History = <<>>
    /\ Returned => Len(ret[1].optimization_history) <= frame.eval_count

\* C6: with a supplied or the default callback, every evaluation appends
\* exactly one record, in evaluation order, and none is removed: the records
\* added by a call are those of its evaluations 1, 2, ...
C6_OneRecordPerEvaluation ==
    InCall =>
        /\ Len(History) = frame.startLen + frame.eval_count
        /\ \A k \in 1..frame.eval_count :
              History[frame.startLen + k].iteration = k

\* The method tag of each solver.
MethodTag(o) == o

\* C7: every Result carries a method tag identifying the solver that
\* produced it.
C7_MethodTag ==
    (Returned \/ op \in {"brute_force", "greedy"}) =>
        /\ "method" \in DOMAIN ret[1]
        /\ ret[1].method = MethodTag(op)

\* C8: an error of a variational solve reaches the caller only after every
\* tier, the final heuristic tier included, has been tried.
C8_ErrorsOnlyAfterAllTiers ==
    (Variational /\ pc = "idle" /\ err # "none") => "d" \in frame.tried

\* =============================================== claims on SpecGiven

\* The lowest 1-based index whose combined cost is minimal.
LowestMinItem(m) ==
    CHOOSE i \in 1..m.N :
        /\ \A j \in 1..m.N : RLe(ItemCost(m, i), ItemCost(m, j))
        /\ \A j \in 1..(i - 1) : RLt(ItemCost(m, i), ItemCost(m, j))

\* C12: the Heuristic Solver returns the bitstring whose single set bit is
\* the lowest index minimising alpha*R_i + beta*D_i, with energy evaluate of
\* that bitstring and method "greedy"; for four risk and four distance costs
\* of 0.5 (alpha = beta = 1) it returns [1,0,0,0] with energy 1/2.
C12_Greedy ==
    op = "greedy" =>
        LET m == qubo[1]
            i == LowestMinItem(m)
        IN  /\ ret[1].bitstring = [k \in 1..m.N |-> IF k = i THEN 1 ELSE 0]
            /\ ret[1].energy = evaluate(m, ret[1].bitstring)
            /\ ret[1].energy = ItemCost(m, i)
            /\ ret[1].method = "greedy"
            /\ m = QUBOProblem(Half4, Half4, Rat(1), Rat(1), m.penalty) =>
                  /\ m.R = [k \in 1..4 |-> <<1, 4>>]
                  /\ m.D = [k \in 1..4 |-> <<1, 4>>]
                  /\ ret[1].bitstring = <<1, 0, 0, 0>>
                  /\ ret[1].energy = <<1, 2>>

C12_Witness ==
    /\ op = "greedy"
    /\ qubo[1] = QUBOProblem(Half4, Half4, Rat(1), Rat(1), Rat(10))
    /\ ret[1].bitstring = <<1, 0, 0, 0>>
    /\ ret[1].energy = <<1, 2>>

\* The integer a bitstring denotes, element 1 the most significant digit.
RECURSIVE Numeral(_, _)
Numeral(x, k) == IF k = 0 THEN 0 ELSE 2 * Numeral(x, k - 1) + x[k]

\* The bitstrings of length N of minimal energy.
Minimisers(m) ==
    {b \in BitStrings(m.N) :
        \A c \in BitStrings(m.N) : RLe(evaluate(m, b), evaluate(m, c))}

\* The value get_optimal_solution returned: the pair of the exact solver's
\* Result or of the generator's delegation.
Optimal ==
    IF op = "brute_force"
    THEN [x |-> ret[1].bitstring, energy |-> ret[1].energy]
    ELSE [x |-> ret[1].x[1], energy |-> ret[1].energy]

OptimalModel == IF op = "brute_force" THEN qubo[1] ELSE tactical[1].qubo

\* C13: optimalSolution returns, among the bitstrings of minimal energy, the
\* one denoting the lowest integer (element 0 the most significant digit),
\* together with that minimal energy.
C13_LowestIntegerWins ==
    op \in {"brute_force", "tactical_optimal"} =>
        LET m == OptimalModel
        IN  /\ Optimal.x \in BitStrings(m.N)
            /\ Optimal.energy = evaluate(m, Optimal.x)
            /\ \A b \in BitStrings(m.N) :
                  /\ RLe(Optimal.energy, evaluate(m, b))
                  /\ evaluate(m, b) = Optimal.energy =>
                        Numeral(Optimal.x, m.N) <= Numeral(b, m.N)

C13_Witness ==
    /\ op = "brute_force"
    /\ qubo[1].N = 2
    /\ Cardinality(Minimisers(qubo[1])) >= 2
    /\ ret[1].bitstring = <<0, 1>>

\* The array all of whose entries are equal.
AllEqual(arr) == \A i, j \in 1..Len(arr) : arr[i] = arr[j]

\* nrm is the normalization C14 describes of the array raw.
Normalized(raw, nrm) ==
    /\ Len(nrm) = Len(raw)
    /\ IF AllEqual(raw)
       THEN \A i \in 1..Len(raw) : nrm[i] = <<1, Len(raw)>>
       ELSE \A i \in 1..Len(raw) :
              /\ nrm[i] = RDiv(RSub(raw[i], RMin(raw)),
                               RSub(RMax(raw), RMin(raw)))
              /\ RLe(Rat(0), nrm[i]) /\ RLe(nrm[i], Rat(1))
              /\ raw[i] = RMin(raw) => nrm[i] = Rat(0)
              /\ raw[i] = RMax(raw) => nrm[i] = Rat(1)

\* C14: construction from two arrays of equal length N >= 1 raises nothing,
\* and each normalized array is the normalization of its own raw array: 1/N
\* everywhere if the raw values are all equal, else (v - min)/(max - min),
\* within [0,1], the minimum at 0 and the maximum at 1.
C14_Normalization ==
    (op = "construct" /\ "risk_costs" \in DOMAIN arg
        /\ arg.risk_len = arg.dist_len) =>
        /\ err = "none"
        /\ Normalized(arg.risk_costs, qubo[1].R)
        /\ Normalized(arg.distance_costs, qubo[1].D)

C14_Witness ==
    /\ op = "construct"
    /\ "risk_costs" \in DOMAIN arg
    /\ arg.risk_len = 2 /\ arg.dist_len = 2
    /\ AllEqual(arg.risk_costs)
    /\ ~AllEqual(arg.distance_costs)
    /\ qubo[1].R = <<(<<1, 2>>), (<<1, 2>>)>>
    /\ qubo[1].D \in {<<Rat(0), Rat(1)>>, <<Rat(1), Rat(0)>>}

\* C15 as stated: for risk = [0.2,0.5,0.9], distance = [0.9,0.5,0.1],
\* alpha = beta = 1 and penalty = 10 the normalized risk is [0, 3/7, 1], the
\* normalized distance is [1, 3/7, 0], and the Exact Solver returns [0,1,0]
\* with energy 6/7.
C15_AsStated ==
    /\ (op = "construct" /\ "risk_costs" \in DOMAIN arg
          /\ arg.risk_costs = Risk3 /\ arg.distance_costs = Dist3) =>
            /\ qubo[1].R = <<Rat(0), (<<3, 7>>), Rat(1)>>
            /\ qubo[1].D = <<Rat(1), (<<3, 7>>), Rat(0)>>
    /\ (op = "brute_force"
          /\ qubo[1] = QUBOProblem(Risk3, Dist3, Rat(1), Rat(1), Rat(10))) =>
            /\ ret[1].bitstring = <<0, 1, 0>>
            /\ ret[1].energy = <<6, 7>>

\* C15 amended: for the same inputs the normalized risk is [0, 3/7, 1], the
\* normalized distance is [1, 1/2, 0], and the Exact Solver returns [0,1,0]
\* with energy 3/7 + 1/2 = 13/14.
C15_Scenario ==
    /\ (op = "construct" /\ "risk_costs" \in DOMAIN arg
          /\ arg.risk_costs = Risk3 /\ arg.distance_costs = Dist3) =>
            /\ qubo[1].R = <<Rat(0), (<<3, 7>>), Rat(1)>>
            /\ qubo[1].D = <<Rat(1), (<<1, 2>>), Rat(0)>>
    /\ (op = "brute_force"
          /\ qubo[1] = QUBOProblem(Risk3, Dist3, Rat(1), Rat(1), Rat(10))) =>
            /\ ret[1].bitstring = <<0, 1, 0>>
            /\ ret[1].energy = <<13, 14>>
            /\ ret[1].method = "brute_force"

C15_Witness ==
    /\ op = "brute_force"
    /\ qubo[1].R = <<Rat(0), (<<3, 7>>), Rat(1)>>
    /\ qubo[1].D = <<Rat(1), (<<1, 2>>), Rat(0)>>
    /\ qubo[1].alpha = Rat(1) /\ qubo[1].beta = Rat(1)
    /\ qubo[1].penalty = Rat(10)
    /\ ret[1].bitstring = <<0, 1, 0>>

\* ========================================= further claims on SpecSolve

\* C16: in both variational solvers the extraction tiers are attempted in
\* the order (a), (b), (c), (d): a tier has been attempted only if every
\* earlier tier was attempted before it, and a call whose tiers (a), (b) and
\* (c) all failed ends with the bitstring of tier (d).
C16_TierOrder ==
    InCall =>
        /\ "b" \in frame.tried => "a" \in frame.tried
        /\ "c" \in frame.tried => "b" \in frame.tried
        /\ "d" \in frame.tried => "c" \in frame.tried
        /\ (pc = "idle" /\ {"a", "b", "c"} \subseteq frame.tried
              /\ frame.tier \notin {"a", "b", "c"}) => frame.tier = "d"

\* C19: when a variational solve returns, every key of the counts table is
\* an N-bit pattern and the extracted bitstring (before repair) is a key
\* holding the maximum count.
C19_CountsConsistent ==
    Returned =>
        /\ \A k \in DOMAIN frame.counts : Len(k) = qubo[1].N
        /\ frame.x[1] \in DOMAIN frame.counts
        /\ \A k \in DOMAIN frame.counts :
              frame.counts[k] <= frame.counts[frame.x[1]]

\* ============================================== further claims on Spec

\* The bitstrings minimising the spin form of ham under z_i = 1 - 2 x_i.
SpinMinimisers(ham, n) ==
    {x \in BitStrings(n) :
        \A y \in BitStrings(n) : RLe(SpinValue(ham, x), SpinValue(ham, y))}

\* C17: for N >= 2 and a penalty above every combined cost, each bitstring
\* minimising sum_i h[i] z_i + sum_{i<j} J[i][j] z_i z_j with z_i = 1 - 2 x_i
\* minimises evaluate and has exactly one set bit.
C17_SameMinimiser ==
    (op = "build_hamiltonian" /\ qubo[1].N >= 2
        /\ RLt(RMax(costs(qubo[1])), qubo[1].penalty)) =>
        \A x \in SpinMinimisers(ret[1], qubo[1].N) :
            /\ x \in Minimisers(qubo[1])
            /\ ISum(x) = 1

\* x^T Q x
QuadraticForm(Q, x) ==
    RSum([i \in 1..Len(x) |->
            RSum([j \in 1..Len(x) |-> RMul(Rat(x[i] * x[j]), Q[i][j])])])

\* C18: for every bitstring x of length N, x^T Q x over the constructed
\* matrix Q equals evaluate(x).
C18_QuadraticForm ==
    (op = "evaluate" /\ err = "none") =>
        QuadraticForm(qubo[1].Q, arg.x) = ret[1]

====
